---- MODULE Spec2Model ----
(***************************************************************************)
(* Scheduler service: weekly availability rules expanded into bookable     *)
(* slots (GenerateAvailableSlots) and the booking handlers that reserve    *)
(* and cancel them against a PostgreSQL store (READ COMMITTED, one         *)
(* statement = one atomic step, a transaction's inserts invisible to       *)
(* others until commit, the partial unique index                           *)
(* ux_bookings_user_start_confirmed enforced at insert).                   *)
(*                                                                         *)
(* Instants are Unix seconds (UTC).  A rule's start_time / end_time is a   *)
(* time of day in seconds since midnight, standing for the TIME text the   *)
(* store returns ("09:00:30" = 9*3600 + 30).                               *)
(***************************************************************************)
EXTENDS Integers, Sequences, FiniteSets, TLC

----------------------------------------------------------------------------
(* Units of time.Duration, in seconds *)
Second == 1
Minute == 60
Hour == 3600
Day == 86400

(* time.Weekday values *)
Sunday == 0
Monday == 1
Tuesday == 2

(* Midnight UTC of Sunday 1970-01-04 / Monday 1970-01-05 / Tuesday 1970-01-06 *)
Sun0 == 3 * Day
Mon0 == 4 * Day
Tue0 == 5 * Day

(* "HH:MM:SS" as seconds since midnight *)
TOD(h, m, s) == h * Hour + m * Minute + s

----------------------------------------------------------------------------
(* Bounds of the model *)
NumWorkers == 2      \* requests handled concurrently
MaxCalls == 3        \* createBooking / cancelBooking requests in a behaviour
MaxRuleWrites == 2   \* rows written to availability_rules in a behaviour
MaxSlotCalls == 1    \* getFreeSlots requests in a behaviour of SpecSlots

Users == {"u1", "u2"}
Calls == 1 .. MaxCalls

----------------------------------------------------------------------------
(* time.Time.Weekday of an instant: 1970-01-01 was a Thursday (4) *)
Weekday(t) == ((t \div Day) + 4) % 7

(* t.Truncate(24 * time.Hour): midnight UTC of t's day *)
Truncate24h(t) == t - (t % Day)

(* parseHHMM: keeps the first five characters "HH:MM" of the TIME text, so  *)
(* the seconds are dropped; time.Parse("15:04") rejects an hour of 24       *)
(* (PostgreSQL's TIME accepts "24:00:00").                                  *)
parseHHMM(s) ==
    IF s < 0 \/ s >= 24 * Hour
    THEN [err |-> TRUE, tod |-> 0]
    ELSE [err |-> FALSE, tod |-> (s \div Minute) * Minute]

(* A faulty variant of slotLen, a fixed half hour whatever the rule says *)
slotLenHalfHour(r) == 30 * Minute

(* slotLen := time.Duration(r.SlotLengthMins) * time.Minute *)
slotLen(r) == r.SlotLengthMins * Minute

(* Slot{StartUTC, EndUTC}.  rule and day are history fields: the id of the *)
(* rule and the day of the iteration that appended the slot; no operation  *)
(* of the program reads them.                                              *)
Slot(startUTC, endUTC, r, day) ==
    [StartUTC |-> startUTC, EndUTC |-> endUTC, rule |-> r.ID, day |-> day]

(* The slot as the caller sees it *)
Bare(s) == <<s.StartUTC, s.EndUTC>>

(* A faulty variant of outOfRange, the range taken as closed *)
outOfRangeClosed(startUTC, endUTC, fromUTC, toUTC) ==
    ~(endUTC >= fromUTC) \/ ~(startUTC <= toUTC)

(* !endUTC.After(fromUTC) || !startUTC.Before(toUTC) *)
outOfRange(startUTC, endUTC, fromUTC, toUTC) ==
    ~(endUTC > fromUTC) \/ ~(startUTC < toUTC)

(* !r.Available *)
unavailable(r) == ~r.Available

(* The chunk loop of one rule on one day:                                  *)
(* for s := utcStart; s+slotLen <= utcEnd; s = s.Add(slotLen)              *)
RECURSIVE chunkLoop(_, _, _, _, _, _)
chunkLoop(s, utcEnd, r, day, fromUTC, toUTC) ==
    IF s + slotLen(r) <= utcEnd
    THEN LET startUTC == s
             endUTC == s + slotLen(r)
             rest == chunkLoop(s + slotLen(r), utcEnd, r, day, fromUTC, toUTC)
         IN  IF outOfRange(startUTC, endUTC, fromUTC, toUTC)
             THEN rest
             ELSE IF unavailable(r)
                  THEN rest
                  ELSE <<Slot(startUTC, endUTC, r, day)>> \o rest
    ELSE <<>>

Failed == [err |-> TRUE, slots |-> <<>>]

(* A faulty variant of endNotAfterStart, only available rules tested *)
endNotAfterStartIfAvailable(r, startTOD, endTOD) == r.Available /\ ~(endTOD > startTOD)

(* !endTOD.After(startTOD), tested for rule r whatever its flag *)
endNotAfterStart(r, startTOD, endTOD) == ~(endTOD > startTOD)

(* The inner loop: for _, r := range rules, from index i on *)
RECURSIVE ruleLoop(_, _, _, _, _)
ruleLoop(rs, i, day, fromUTC, toUTC) ==
    IF i > Len(rs)
    THEN [err |-> FALSE, slots |-> <<>>]
    ELSE LET r == rs[i]
             startTOD == parseHHMM(r.StartTime)
             endTOD == parseHHMM(r.EndTime)
             rest == ruleLoop(rs, i + 1, day, fromUTC, toUTC)
         IN  IF Weekday(day) # r.DayOfWeek
             THEN rest
             ELSE IF startTOD.err \/ endTOD.err
                  THEN Failed
                  ELSE IF endNotAfterStart(r, startTOD.tod, endTOD.tod)
                       THEN Failed
                       ELSE IF rest.err
                            THEN Failed
                            ELSE [err |-> FALSE,
                                  slots |-> chunkLoop(day + startTOD.tod,
                                                      day + endTOD.tod,
                                                      r, day, fromUTC, toUTC)
                                            \o rest.slots]

(* The outer loop: for day := startDate; !day.After(endDate); day += 24h *)
RECURSIVE dayLoop(_, _, _, _, _)
dayLoop(rs, day, endDate, fromUTC, toUTC) ==
    IF day > endDate
    THEN [err |-> FALSE, slots |-> <<>>]
    ELSE LET today == ruleLoop(rs, 1, day, fromUTC, toUTC)
             rest == dayLoop(rs, day + Day, endDate, fromUTC, toUTC)
         IN  IF today.err \/ rest.err
             THEN Failed
             ELSE [err |-> FALSE, slots |-> today.slots \o rest.slots]

(* GenerateAvailableSlots up to candidateSlots (lines 24-71) *)
candidateSlots(rs, fromUTC, toUTC) ==
    IF Len(rs) = 0
    THEN [err |-> FALSE, slots |-> <<>>]
    ELSE dayLoop(rs, Truncate24h(fromUTC), Truncate24h(toUTC), fromUTC, toUTC)

(* SELECT ... FROM availability_rules WHERE user_id=$1 ORDER BY id; the    *)
(* table is kept as the sequence of its rows in id order                   *)
ListAvailabilityRules(table, userID) ==
    SelectSeq(table, LAMBDA r : r.UserID = userID)

(* The lookup range of GenerateAvailableSlots: fromUTC - 1h, toUTC + 1h *)
lookupFrom(fromUTC) == fromUTC - 1 * Hour
lookupTo(toUTC) == toUTC + 1 * Hour

(* SELECT ... FROM bookings WHERE user_id=$1 AND start_at_utc >= $2        *)
(*   AND start_at_utc < $3 AND status='confirmed'                          *)
ListBookingsInRange(rows, userID, from, to) ==
    {b \in rows : /\ b.UserID = userID
                  /\ b.StartAtUTC >= from
                  /\ b.StartAtUTC < to
                  /\ b.Status = "confirmed"}

(* A faulty variant of bookedMap: every minute a booking covers is booked *)
bookedMapOverlap(bs) ==
    UNION {{b.StartAtUTC + m * Minute :
               m \in 0 .. (((b.EndAtUTC - b.StartAtUTC) \div Minute) - 1)} : b \in bs}

(* bookedMap and the final filter of GenerateAvailableSlots (lines 78-88) *)
bookedMap(bs) == {b.StartAtUTC : b \in bs}
available(cands, booked) == SelectSeq(cands, LAMBDA s : s.StartUTC \notin booked)

(* GenerateAvailableSlots with both of its reads made in one store state *)
GenerateAvailableSlots(table, rows, userID, fromUTC, toUTC) ==
    LET c == candidateSlots(ListAvailabilityRules(table, userID), fromUTC, toUTC)
    IN  IF c.err
        THEN Failed
        ELSE [err |-> FALSE,
              slots |-> available(c.slots,
                                  bookedMap(ListBookingsInRange(rows, userID,
                                      lookupFrom(fromUTC), lookupTo(toUTC))))]

----------------------------------------------------------------------------
(* Inputs of the booking protocol *)

(* The rules a client posts: {day_of_week, start_time, end_time,           *)
(* slot_length_minutes, available}                                         *)
Payload(dow, st, en, len, av) ==
    [DayOfWeek |-> dow, StartTime |-> st, EndTime |-> en,
     SlotLengthMins |-> len, Available |-> av]

Rule30 == Payload(Monday, TOD(9, 0, 0), TOD(10, 0, 0), 30, TRUE)
Rule120 == Payload(Monday, TOD(9, 0, 0), TOD(11, 0, 0), 120, TRUE)

RulePayloads == {Rule30, Rule120}
SetPayloads == {<<Rule30>>, <<Rule120>>, <<Rule30, Rule120>>}

(* The windows a client asks to book: <<start_at_utc, end_at_utc>> *)
WinA == <<Mon0 + TOD(9, 0, 0), Mon0 + TOD(9, 30, 0)>>
WinB == <<Mon0 + TOD(9, 30, 0), Mon0 + TOD(10, 0, 0)>>
WinL == <<Mon0 + TOD(9, 0, 0), Mon0 + TOD(11, 0, 0)>>
WinBad == <<Mon0 + TOD(9, 30, 0), Mon0 + TOD(9, 0, 0)>>
Windows == {WinA, WinB, WinL, WinBad}

(* The ranges a client queries free slots for: <<from, to>> *)
RangeMonday == <<Mon0, Tue0>>
RangeLate == <<Mon0 + TOD(10, 30, 0), Mon0 + TOD(11, 30, 0)>>
Ranges == {RangeMonday, RangeLate}

----------------------------------------------------------------------------
VARIABLES
    rules,       \* table availability_rules: its rows in id order
    ruleWrites,  \* rows written to availability_rules so far
    setCall,     \* the SetAvailabilityHandler request in progress, if any
    bookings,    \* table bookings: the committed rows
    nextID,      \* stands for gen_random_uuid(): the next fresh booking id
    pending,     \* per request: the row its open transaction has inserted
    pc,          \* per request: where its handler stands
    req,         \* per request: the operation and its parameters
    cand,        \* per request: candidateSlots of GenerateAvailableSlots
    result,      \* per request: the response
    cancelWrites,\* history: per booking id, UPDATEs that set it cancelled
    slotsOut,    \* per request: the slots GetSlotsHandler returned
    listOut      \* per request: the bookings ListBookingsHandler returned

vars == <<rules, ruleWrites, setCall, bookings, nextID, pending, pc, req, cand,
          result, cancelWrites, slotsOut, listOut>>

NoCall == [UserID |-> "", payload |-> <<>>, i |-> 0]
NoReq == [op |-> "none", UserID |-> "", start |-> 0, end |-> 0, id |-> 0]

BookingIDs == 1 .. (MaxCalls + 1)

InFlight == {k \in Calls : pc[k] \notin {"idle", "done"}}

(* Requests arrive in the order of their numbers, at most NumWorkers of    *)
(* them being handled at a time                                            *)
CanArrive(k) ==
    /\ pc[k] = "idle"
    /\ IF k = 1 THEN TRUE ELSE pc[k - 1] # "idle"
    /\ Cardinality(InFlight) < NumWorkers

Init ==
    /\ rules = <<>>
    /\ ruleWrites = 0
    /\ setCall = NoCall
    /\ bookings = {}
    /\ nextID = 1
    /\ pending = [k \in Calls |-> {}]
    /\ pc = [k \in Calls |-> "idle"]
    /\ req = [k \in Calls |-> NoReq]
    /\ cand = [k \in Calls |-> <<>>]
    /\ result = [k \in Calls |-> "none"]
    /\ cancelWrites = [id \in BookingIDs |-> 0]
    /\ slotsOut = [k \in Calls |-> <<>>]
    /\ listOut = [k \in Calls |-> <<>>]

Finish(k, res) ==
    /\ pc' = [pc EXCEPT ![k] = "done"]
    /\ result' = [result EXCEPT ![k] = res]

----------------------------------------------------------------------------
(* Rule Store *)

(* The CHECK constraints of availability_rules *)
RuleRowOK(p) ==
    /\ p.DayOfWeek >= 0 /\ p.DayOfWeek <= 6
    /\ p.SlotLengthMins > 0

RuleIDs == {rules[i].ID : i \in 1 .. Len(rules)}

InsertAt(seq, pos, x) ==
    SubSeq(seq, 1, pos - 1) \o <<x>> \o SubSeq(seq, pos, Len(seq))

(* A faulty variant of InsertAvailabilityRule: a rule is refused when the  *)
(* subject already has one for that day_of_week                            *)
InsertAvailabilityRuleOncePerDay(table, id, userID, p, pos) ==
    IF \E i \in 1 .. Len(table) :
           table[i].UserID = userID /\ table[i].DayOfWeek = p.DayOfWeek
    THEN table
    ELSE InsertAt(table, pos,
                  [ID |-> id, UserID |-> userID,
                   DayOfWeek |-> p.DayOfWeek, StartTime |-> p.StartTime,
                   EndTime |-> p.EndTime, SlotLengthMins |-> p.SlotLengthMins,
                   Available |-> p.Available])

(* InsertAvailabilityRule: INSERT ... VALUES (gen_random_uuid(), ...).     *)
(* The fresh uuid falls anywhere in the id order; ID is the row's identity *)
InsertAvailabilityRule(table, id, userID, p, pos) ==
    InsertAt(table, pos,
             [ID |-> id, UserID |-> userID,
              DayOfWeek |-> p.DayOfWeek, StartTime |-> p.StartTime,
              EndTime |-> p.EndTime, SlotLengthMins |-> p.SlotLengthMins,
              Available |-> p.Available])

(* SetAvailabilityHandler: the request is bound *)
SetAvailabilityStart(userID, payload) ==
    /\ setCall = NoCall
    /\ ruleWrites + Len(payload) <= MaxRuleWrites
    /\ setCall' = [UserID |-> userID, payload |-> payload, i |-> 1]
    /\ UNCHANGED <<rules, ruleWrites, bookings, nextID, pending, pc, req, cand,
                   result, cancelWrites, slotsOut, listOut>>

(* SetAvailabilityHandler: one turn of its loop, payload[i].UserID = userID *)
(* and InsertAvailabilityRule; an error ends the request, earlier rows stay *)
SetAvailabilityInsert ==
    /\ setCall # NoCall
    /\ LET p == setCall.payload[setCall.i]
       IN  IF RuleRowOK(p)
           THEN /\ \E pos \in 1 .. (Len(rules) + 1) :
                      rules' = InsertAvailabilityRule(rules, ruleWrites + 1,
                                                      setCall.UserID, p, pos)
                /\ ruleWrites' = ruleWrites + 1
                /\ setCall' = IF setCall.i = Len(setCall.payload)
                              THEN NoCall
                              ELSE [setCall EXCEPT !.i = @ + 1]
           ELSE /\ setCall' = NoCall
                /\ UNCHANGED <<rules, ruleWrites>>
    /\ UNCHANGED <<bookings, nextID, pending, pc, req, cand, result,
                   cancelWrites, slotsOut, listOut>>

(* A faulty variant of updateTargets, the subject not compared *)
updateTargetsAnyUser(table, userID, ruleID) ==
    {i \in 1 .. Len(table) : table[i].ID = ruleID}

(* The rows of UPDATE availability_rules ... WHERE id=$7 AND user_id=$8 *)
updateTargets(table, userID, ruleID) ==
    {i \in 1 .. Len(table) : table[i].ID = ruleID /\ table[i].UserID = userID}

(* UPDATE availability_rules SET start_time, end_time, slot_length_minutes, *)
(* available WHERE id=$7 AND user_id=$8                                     *)
UpdateRule(table, userID, ruleID, p) ==
    [i \in 1 .. Len(table) |->
        IF i \in updateTargets(table, userID, ruleID)
        THEN [table[i] EXCEPT !.StartTime = p.StartTime,
                              !.EndTime = p.EndTime,
                              !.SlotLengthMins = p.SlotLengthMins,
                              !.Available = p.Available]
        ELSE table[i]]

(* The response of UpdateAvailabilityHandler: pgx.ErrNoRows when RETURNING *)
(* yields no row answers 404, another error of the statement (a CHECK      *)
(* constraint of a row it would write) answers 500, else 200               *)
UpdateAvailabilityAnswer(table, userID, ruleID, p) ==
    IF updateTargets(table, userID, ruleID) = {}
    THEN "NotFound"
    ELSE IF ~RuleRowOK(p) THEN "InternalError" ELSE "OK"

(* UpdateAvailabilityHandler, its response left out *)
UpdateAvailability(userID, ruleID, p) ==
    /\ ruleWrites < MaxRuleWrites
    /\ IF UpdateAvailabilityAnswer(rules, userID, ruleID, p) = "OK"
       THEN /\ rules' = UpdateRule(rules, userID, ruleID, p)
            /\ ruleWrites' = ruleWrites + 1
       ELSE UNCHANGED <<rules, ruleWrites>>
    /\ UNCHANGED <<setCall, bookings, nextID, pending, pc, req, cand, result,
                   cancelWrites, slotsOut, listOut>>

(* UpdateAvailabilityHandler as request k, with its response *)
UpdateAvailabilityHandler(k, userID, ruleID, p) ==
    /\ CanArrive(k)
    /\ req' = [req EXCEPT ![k] = [op |-> "update", UserID |-> userID,
                                  start |-> 0, end |-> 0, id |-> ruleID]]
    /\ Finish(k, UpdateAvailabilityAnswer(rules, userID, ruleID, p))
    /\ IF UpdateAvailabilityAnswer(rules, userID, ruleID, p) = "OK"
       THEN /\ rules' = UpdateRule(rules, userID, ruleID, p)
            /\ ruleWrites' = ruleWrites + 1
       ELSE UNCHANGED <<rules, ruleWrites>>
    /\ UNCHANGED <<setCall, bookings, nextID, pending, cand, cancelWrites,
                   slotsOut, listOut>>

----------------------------------------------------------------------------
(* Booking Store and CreateBookingHandler *)

Booking(id, userID, start, end) ==
    [ID |-> id, UserID |-> userID, StartAtUTC |-> start, EndAtUTC |-> end,
     Status |-> "confirmed"]

(* A faulty variant of checkQ, the status not tested *)
checkQAnyStatus(rows, userID, start) ==
    {b \in rows : b.UserID = userID /\ b.StartAtUTC = start}

(* SELECT id FROM bookings WHERE user_id=$1 AND status='confirmed'         *)
(*   AND start_at_utc = $2 FOR UPDATE                                      *)
checkQ(rows, userID, start) ==
    {b \in rows : b.UserID = userID /\ b.Status = "confirmed" /\ b.StartAtUTC = start}

(* A faulty variant of UniqueViolation, the index missing *)
UniqueViolationNoIndex(rows, userID, start) == FALSE

(* ux_bookings_user_start_confirmed: UNIQUE (user_id, start_at_utc)        *)
(* WHERE status = 'confirmed', against the committed rows                  *)
UniqueViolation(rows, userID, start) ==
    \E b \in rows : b.UserID = userID /\ b.Status = "confirmed" /\ b.StartAtUTC = start

(* The same index against a row another open transaction has inserted:     *)
(* the INSERT waits for that transaction to end                             *)
IndexWait(k, userID, start) ==
    \E j \in Calls \ {k} : \E b \in pending[j] :
        b.UserID = userID /\ b.StartAtUTC = start

(* A faulty variant of SlotMatches, the end not compared *)
SlotMatchesStartOnly(slots, start, end) ==
    \E i \in 1 .. Len(slots) : slots[i].StartUTC = start

(* ok: s.StartUTC.Equal(start.UTC()) && s.EndUTC.Equal(end.UTC()) for some s *)
SlotMatches(slots, start, end) ==
    \E i \in 1 .. Len(slots) : slots[i].StartUTC = start /\ slots[i].EndUTC = end

(* A faulty variant of badRange, an empty range let through *)
badRangeEmptyOK(from, to) == from > to

(* !start.Before(end), !from.Before(to) *)
badRange(from, to) == ~(from < to)

(* CreateBookingHandler lines 178-207: the request is bound and validated, *)
(* the transaction begun                                                   *)
CreateBookingStart(k, userID, start, end) ==
    /\ CanArrive(k)
    /\ req' = [req EXCEPT ![k] = [op |-> "create", UserID |-> userID,
                                  start |-> start, end |-> end, id |-> 0]]
    /\ IF badRange(start, end)
       THEN Finish(k, "BadRange")
       ELSE /\ pc' = [pc EXCEPT ![k] = "checkQ"]
            /\ UNCHANGED result
    /\ UNCHANGED <<rules, ruleWrites, setCall, bookings, nextID, pending, cand,
                   cancelWrites, slotsOut, listOut>>

(* lines 209-222: a confirmed booking at start answers 409, and the        *)
(* deferred Rollback releases the row lock at once                         *)
CreateBookingCheck(k) ==
    /\ pc[k] = "checkQ"
    /\ IF checkQ(bookings, req[k].UserID, req[k].start) # {}
       THEN Finish(k, "SlotTaken")
       ELSE /\ pc' = [pc EXCEPT ![k] = "listRules"]
            /\ UNCHANGED result
    /\ UNCHANGED <<rules, ruleWrites, setCall, bookings, nextID, pending, req,
                   cand, cancelWrites, slotsOut, listOut>>

(* line 225 and GenerateAvailableSlots lines 20-71, on the pool and not on *)
(* the transaction: the rules are read and expanded over                   *)
(* [start - 1s, end + 1s]                                                  *)
CreateBookingListRules(k) ==
    /\ pc[k] = "listRules"
    /\ LET c == candidateSlots(ListAvailabilityRules(rules, req[k].UserID),
                               req[k].start - 1 * Second, req[k].end + 1 * Second)
       IN  IF c.err
           THEN /\ Finish(k, "InternalError")
                /\ UNCHANGED cand
           ELSE /\ cand' = [cand EXCEPT ![k] = c.slots]
                /\ pc' = [pc EXCEPT ![k] = "listBookings"]
                /\ UNCHANGED result
    /\ UNCHANGED <<rules, ruleWrites, setCall, bookings, nextID, pending, req,
                   cancelWrites, slotsOut, listOut>>

(* GenerateAvailableSlots lines 73-89 and CreateBookingHandler lines       *)
(* 230-240: the confirmed bookings are read, subtracted, and the window    *)
(* looked up among what is left                                            *)
CreateBookingListBookings(k) ==
    /\ pc[k] = "listBookings"
    /\ LET from == req[k].start - 1 * Second
           to == req[k].end + 1 * Second
           bs == ListBookingsInRange(bookings, req[k].UserID,
                                     lookupFrom(from), lookupTo(to))
           slots == available(cand[k], bookedMap(bs))
       IN  IF ~SlotMatches(slots, req[k].start, req[k].end)
           THEN Finish(k, "SlotNotAvailable")
           ELSE /\ pc' = [pc EXCEPT ![k] = "insertQ"]
                /\ UNCHANGED result
    /\ UNCHANGED <<rules, ruleWrites, setCall, bookings, nextID, pending, req,
                   cand, cancelWrites, slotsOut, listOut>>

(* lines 242-262: INSERT INTO bookings ... 'confirmed' inside the          *)
(* transaction; a unique violation answers 500                             *)
CreateBookingInsert(k) ==
    /\ pc[k] = "insertQ"
    /\ ~IndexWait(k, req[k].UserID, req[k].start)
    /\ IF UniqueViolation(bookings, req[k].UserID, req[k].start)
       THEN /\ Finish(k, "InternalError")
            /\ UNCHANGED <<pending, nextID>>
       ELSE /\ pending' = [pending EXCEPT ![k] =
                   {Booking(nextID, req[k].UserID, req[k].start, req[k].end)}]
            /\ nextID' = nextID + 1
            /\ pc' = [pc EXCEPT ![k] = "commit"]
            /\ UNCHANGED result
    /\ UNCHANGED <<rules, ruleWrites, setCall, bookings, req, cand,
                   cancelWrites, slotsOut, listOut>>

(* lines 264-278: tx.Commit makes the row visible, the answer is 201 *)
CreateBookingCommit(k) ==
    /\ pc[k] = "commit"
    /\ bookings' = bookings \cup pending[k]
    /\ pending' = [pending EXCEPT ![k] = {}]
    /\ Finish(k, "Confirmed")
    /\ UNCHANGED <<rules, ruleWrites, setCall, nextID, req, cand,
                   cancelWrites, slotsOut, listOut>>

TxOpen == {"checkQ", "listRules", "listBookings", "insertQ", "commit"}

(* A faulty variant of CreateBookingStoreFails: the inserted row is kept   *)
(* when the request fails                                                  *)
CreateBookingStoreFailsRowKept(k) ==
    /\ pc[k] \in TxOpen
    /\ req[k].op = "create"
    /\ bookings' = bookings \cup pending[k]
    /\ pending' = [pending EXCEPT ![k] = {}]
    /\ Finish(k, "InternalError")
    /\ UNCHANGED <<rules, ruleWrites, setCall, nextID, req, cand,
                   cancelWrites, slotsOut, listOut>>

(* The store fails the statement the request is at (checkQ, a read of      *)
(* GenerateAvailableSlots, insertQ or tx.Commit): the handler answers 500  *)
(* and the deferred tx.Rollback discards what the transaction inserted     *)
CreateBookingStoreFails(k) ==
    /\ pc[k] \in TxOpen
    /\ req[k].op = "create"
    /\ pending' = [pending EXCEPT ![k] = {}]
    /\ Finish(k, "InternalError")
    /\ UNCHANGED <<rules, ruleWrites, setCall, bookings, nextID, req, cand,
                   cancelWrites, slotsOut, listOut>>

----------------------------------------------------------------------------
(* CancelBookingHandler *)

(* A faulty variant of cancelTargets, the status not tested *)
cancelTargetsAnyStatus(rows, id) == {b \in rows : b.ID = id}

(* The rows of UPDATE bookings ... WHERE id=$1 AND status != 'cancelled' *)
cancelTargets(rows, id) == {b \in rows : b.ID = id /\ b.Status # "cancelled"}

(* A faulty variant of updateQ, the rows deleted *)
deleteQ(rows, targets) == rows \ targets

(* UPDATE bookings SET status='cancelled' on the target rows *)
updateQ(rows, targets) ==
    {IF b \in targets THEN [b EXCEPT !.Status = "cancelled"] ELSE b : b \in rows}

(* A faulty variant of selectStatus, the cancelled rows filtered out *)
selectStatusLive(rows, id) == {b.Status : b \in {x \in rows : x.ID = id /\ x.Status # "cancelled"}}

(* SELECT status FROM bookings WHERE id=$1 *)
selectStatus(rows, id) == {b.Status : b \in {x \in rows : x.ID = id}}

(* lines 283-303: SELECT status FROM bookings WHERE id=$1 *)
CancelBookingCheck(k, id) ==
    /\ CanArrive(k)
    /\ req' = [req EXCEPT ![k] = [op |-> "cancel", UserID |-> "",
                                  start |-> 0, end |-> 0, id |-> id]]
    /\ LET currentStatus == selectStatus(bookings, id)
       IN  IF currentStatus = {}
           THEN Finish(k, "NotFound")
           ELSE IF "cancelled" \in currentStatus
                THEN Finish(k, "AlreadyCancelled")
                ELSE /\ pc' = [pc EXCEPT ![k] = "updateQ"]
                     /\ UNCHANGED result
    /\ UNCHANGED <<rules, ruleWrites, setCall, bookings, nextID, pending, cand,
                   cancelWrites, slotsOut, listOut>>

(* lines 305-318: the conditional UPDATE; no row affected answers 409 *)
CancelBookingUpdate(k) ==
    /\ pc[k] = "updateQ"
    /\ LET targets == cancelTargets(bookings, req[k].id)
       IN  IF targets = {}
           THEN /\ Finish(k, "AlreadyCancelled")
                /\ UNCHANGED <<bookings, cancelWrites>>
           ELSE /\ bookings' = updateQ(bookings, targets)
                /\ cancelWrites' = [cancelWrites EXCEPT ![req[k].id] = @ + 1]
                /\ Finish(k, "OK")
    /\ UNCHANGED <<rules, ruleWrites, setCall, nextID, pending, req, cand,
                   slotsOut, listOut>>

----------------------------------------------------------------------------
(* GetSlotsHandler *)

(* lines 96-117: from and to are parsed, from must be before to *)
GetSlotsStart(k, userID, from, to) ==
    /\ CanArrive(k)
    /\ req' = [req EXCEPT ![k] = [op |-> "slots", UserID |-> userID,
                                  start |-> from, end |-> to, id |-> 0]]
    /\ IF badRange(from, to)
       THEN Finish(k, "BadRange")
       ELSE /\ pc' = [pc EXCEPT ![k] = "slotsRules"]
            /\ UNCHANGED result
    /\ UNCHANGED <<rules, ruleWrites, setCall, bookings, nextID, pending, cand,
                   cancelWrites, slotsOut, listOut>>

(* GenerateAvailableSlots lines 20-71: the rules are read and expanded *)
GetSlotsListRules(k) ==
    /\ pc[k] = "slotsRules"
    /\ LET c == candidateSlots(ListAvailabilityRules(rules, req[k].UserID),
                               req[k].start, req[k].end)
       IN  IF c.err
           THEN /\ Finish(k, "InternalError")
                /\ UNCHANGED cand
           ELSE /\ cand' = [cand EXCEPT ![k] = c.slots]
                /\ pc' = [pc EXCEPT ![k] = "slotsBookings"]
                /\ UNCHANGED result
    /\ UNCHANGED <<rules, ruleWrites, setCall, bookings, nextID, pending, req,
                   cancelWrites, slotsOut, listOut>>

(* A faulty variant of GetSlotsListBookings: the slots answered to an      *)
(* earlier request with the same parameters are kept and served again      *)
GetSlotsListBookingsStored(k) ==
    /\ pc[k] = "slotsBookings"
    /\ LET bs == ListBookingsInRange(bookings, req[k].UserID,
                                     lookupFrom(req[k].start), lookupTo(req[k].end))
           earlier == {j \in Calls : /\ pc[j] = "done" /\ result[j] = "OK"
                                     /\ req[j] = req[k]}
       IN  slotsOut' = [slotsOut EXCEPT ![k] =
                           IF earlier # {}
                           THEN slotsOut[CHOOSE j \in earlier : TRUE]
                           ELSE available(cand[k], bookedMap(bs))]
    /\ Finish(k, "OK")
    /\ UNCHANGED <<rules, ruleWrites, setCall, bookings, nextID, pending, req,
                   cand, cancelWrites, listOut>>

(* GenerateAvailableSlots lines 73-89: the confirmed bookings are read and *)
(* subtracted; the answer is 200 with the slots left                       *)
GetSlotsListBookings(k) ==
    /\ pc[k] = "slotsBookings"
    /\ LET bs == ListBookingsInRange(bookings, req[k].UserID,
                                     lookupFrom(req[k].start), lookupTo(req[k].end))
       IN  slotsOut' = [slotsOut EXCEPT ![k] = available(cand[k], bookedMap(bs))]
    /\ Finish(k, "OK")
    /\ UNCHANGED <<rules, ruleWrites, setCall, bookings, nextID, pending, req,
                   cand, cancelWrites, listOut>>

----------------------------------------------------------------------------
(* ListBookingsHandler *)

(* ORDER BY start_at_utc: the rows as a sequence in ascending start order; *)
(* the unique index leaves no two rows of the result with one start        *)
OrderByStart(rows) ==
    CHOOSE seq \in [1 .. Cardinality(rows) -> rows] :
        /\ \A i, j \in 1 .. Cardinality(rows) : i # j => seq[i] # seq[j]
        /\ \A i, j \in 1 .. Cardinality(rows) :
              i < j => seq[i].StartAtUTC <= seq[j].StartAtUTC

(* ListBookings: SELECT ... FROM bookings WHERE user_id=$1 [AND            *)
(* start_at_utc >= $2 AND start_at_utc < $3] AND status != 'cancelled'     *)
(* ORDER BY start_at_utc                                                   *)
ListBookings(rows, userID, from, to, filtered) ==
    OrderByStart({b \in rows : /\ b.UserID = userID
                               /\ b.Status # "cancelled"
                               /\ filtered => (b.StartAtUTC >= from /\ b.StartAtUTC < to)})

(* ListBookingsHandler: with from and to both given they are parsed and    *)
(* from must be before to; then the one query, and the answer is 200       *)
ListBookingsHandler(k, userID, from, to, filtered) ==
    /\ CanArrive(k)
    /\ req' = [req EXCEPT ![k] = [op |-> IF filtered THEN "listRange" ELSE "list",
                                  UserID |-> userID,
                                  start |-> from, end |-> to, id |-> 0]]
    /\ IF filtered /\ badRange(from, to)
       THEN /\ Finish(k, "BadRange")
            /\ UNCHANGED listOut
       ELSE /\ listOut' = [listOut EXCEPT ![k] =
                              ListBookings(bookings, userID, from, to, filtered)]
            /\ Finish(k, "OK")
    /\ UNCHANGED <<rules, ruleWrites, setCall, bookings, nextID, pending, cand,
                   cancelWrites, slotsOut>>

----------------------------------------------------------------------------
(* The service from an empty store: every handler, one subject *)
Next ==
    \/ \E p \in SetPayloads : SetAvailabilityStart("u1", p)
    \/ SetAvailabilityInsert
    \/ \E id \in RuleIDs, p \in RulePayloads : UpdateAvailability("u1", id, p)
    \/ \E k \in Calls, w \in Windows : CreateBookingStart(k, "u1", w[1], w[2])
    \/ \E k \in Calls : CreateBookingCheck(k)
    \/ \E k \in Calls : CreateBookingListRules(k)
    \/ \E k \in Calls : CreateBookingListBookings(k)
    \/ \E k \in Calls : CreateBookingInsert(k)
    \/ \E k \in Calls : CreateBookingCommit(k)
    \/ \E k \in Calls, id \in 1 .. nextID : CancelBookingCheck(k, id)
    \/ \E k \in Calls : CancelBookingUpdate(k)

Spec == Init /\ [][Next]_vars

----------------------------------------------------------------------------
(* The booking protocol over a rule table that stays as it is: the store   *)
(* after the subjects' availability has been set, then createBooking and   *)
(* cancelBooking requests of two subjects                                  *)
TableOf(u1rules, u2rules) ==
    [i \in 1 .. Len(u1rules) |->
        [ID |-> i, UserID |-> "u1", DayOfWeek |-> u1rules[i].DayOfWeek,
         StartTime |-> u1rules[i].StartTime, EndTime |-> u1rules[i].EndTime,
         SlotLengthMins |-> u1rules[i].SlotLengthMins,
         Available |-> u1rules[i].Available]]
    \o
    [i \in 1 .. Len(u2rules) |->
        [ID |-> Len(u1rules) + i, UserID |-> "u2", DayOfWeek |-> u2rules[i].DayOfWeek,
         StartTime |-> u2rules[i].StartTime, EndTime |-> u2rules[i].EndTime,
         SlotLengthMins |-> u2rules[i].SlotLengthMins,
         Available |-> u2rules[i].Available]]

BookingTables ==
    {TableOf(<<Rule30>>, <<>>), TableOf(<<Rule30, Rule120>>, <<>>),
     TableOf(<<Rule30>>, <<Rule30>>)}

(* The requests of SpecBooking: <<subject, window>> *)
BookingRequests == ({"u1"} \X Windows) \cup {<<"u2", WinA>>}

InitBooking ==
    /\ rules \in BookingTables
    /\ ruleWrites = Len(rules)
    /\ setCall = NoCall
    /\ bookings = {}
    /\ nextID = 1
    /\ pending = [k \in Calls |-> {}]
    /\ pc = [k \in Calls |-> "idle"]
    /\ req = [k \in Calls |-> NoReq]
    /\ cand = [k \in Calls |-> <<>>]
    /\ result = [k \in Calls |-> "none"]
    /\ cancelWrites = [id \in BookingIDs |-> 0]
    /\ slotsOut = [k \in Calls |-> <<>>]
    /\ listOut = [k \in Calls |-> <<>>]

NextBooking ==
    \/ \E k \in Calls, r \in BookingRequests : CreateBookingStart(k, r[1], r[2][1], r[2][2])
    \/ \E k \in Calls : CreateBookingCheck(k)
    \/ \E k \in Calls : CreateBookingListRules(k)
    \/ \E k \in Calls : CreateBookingListBookings(k)
    \/ \E k \in Calls : CreateBookingInsert(k)
    \/ \E k \in Calls : CreateBookingCommit(k)
    \/ \E k \in Calls, id \in 1 .. nextID : CancelBookingCheck(k, id)
    \/ \E k \in Calls : CancelBookingUpdate(k)

SpecBooking == InitBooking /\ [][NextBooking]_vars

----------------------------------------------------------------------------
(* The booking protocol with a store that can fail any statement of a      *)
(* createBooking transaction, one subject holding the one rule             *)
NextFaults ==
    \/ NextBooking
    \/ \E k \in Calls : CreateBookingStoreFails(k)

InitFaults == InitBooking /\ rules = TableOf(<<Rule30>>, <<>>)

SpecFaults == InitFaults /\ [][NextFaults]_vars

----------------------------------------------------------------------------
(* The availability handlers alone, from an empty store, two subjects:     *)
(* what setAvailability and updateAvailability let into the table          *)
RuleBackwards == Payload(Monday, TOD(10, 0, 0), TOD(9, 0, 0), 30, TRUE)
RuleZeroLength == Payload(Monday, TOD(9, 0, 0), TOD(10, 0, 0), 0, TRUE)

PostedRules == {Rule30, Rule120, RuleBackwards, RuleZeroLength}
PostedLists == UNION {[1 .. n -> PostedRules] : n \in 1 .. MaxRuleWrites}

NextRules ==
    \/ \E u \in Users, p \in PostedLists : SetAvailabilityStart(u, p)
    \/ SetAvailabilityInsert
    \/ \E u \in Users, id \in 1 .. (ruleWrites + 1), p \in PostedRules :
          UpdateAvailability(u, id, p)

SpecRules == Init /\ [][NextRules]_vars

----------------------------------------------------------------------------
(* getFreeSlots over a store that stays as it is: every table of up to     *)
(* MaxTableLen rules of one subject, in every id order, and the bookings   *)
(* createBooking and cancelBooking can have left                           *)
RuleTrail == Payload(Monday, TOD(9, 0, 0), TOD(9, 50, 0), 30, TRUE)
RuleSecs == Payload(Monday, TOD(9, 0, 30), TOD(9, 50, 0), 30, TRUE)
RuleTue == Payload(Tuesday, TOD(9, 0, 0), TOD(10, 0, 0), 30, TRUE)
RuleOff == Payload(Monday, TOD(9, 0, 0), TOD(10, 0, 0), 30, FALSE)
RuleBad == Payload(Monday, TOD(10, 0, 0), TOD(9, 0, 0), 30, TRUE)
RuleOffSecs == Payload(Monday, TOD(9, 0, 10), TOD(9, 0, 50), 30, FALSE)

SlotPayloads == {Rule30, Rule120, RuleTrail, RuleSecs, RuleTue, RuleOff, RuleBad,
                 RuleOffSecs}

MaxTableLen == 2

SlotTables ==
    UNION {{TableOf(ps, <<>>) : ps \in [1 .. n -> SlotPayloads]} : n \in 0 .. MaxTableLen}

Cancelled(b) == [b EXCEPT !.Status = "cancelled"]

SlotBookings ==
    {{},
     {Booking(1, "u1", WinA[1], WinA[2])},
     {Booking(1, "u1", WinL[1], WinL[2])},
     {Cancelled(Booking(1, "u1", WinA[1], WinA[2])), Booking(2, "u1", WinB[1], WinB[2])}}

RangeDays == <<Sun0 + TOD(12, 0, 0), Tue0 + TOD(9, 30, 0)>>
RangeToAtStart == <<Mon0, Mon0 + TOD(9, 30, 0)>>
RangeFromAtEnd == <<Mon0 + TOD(9, 30, 0), Mon0 + TOD(12, 0, 0)>>
RangeEmpty == <<Mon0 + TOD(9, 30, 0), Mon0 + TOD(9, 30, 0)>>
RangeEdges == <<Mon0 + TOD(9, 30, 0), Tue0 + TOD(9, 0, 0)>>
SlotRanges == {RangeMonday, RangeLate, RangeDays, RangeToAtStart, RangeFromAtEnd,
               RangeEmpty, RangeEdges}

InitSlots ==
    /\ rules \in SlotTables
    /\ ruleWrites = Len(rules)
    /\ setCall = NoCall
    /\ bookings \in SlotBookings
    /\ nextID = Cardinality(bookings) + 1
    /\ pending = [k \in Calls |-> {}]
    /\ pc = [k \in Calls |-> "idle"]
    /\ req = [k \in Calls |-> NoReq]
    /\ cand = [k \in Calls |-> <<>>]
    /\ result = [k \in Calls |-> "none"]
    /\ cancelWrites = [id \in BookingIDs |->
                          Cardinality({b \in bookings : b.ID = id /\ b.Status = "cancelled"})]
    /\ slotsOut = [k \in Calls |-> <<>>]
    /\ listOut = [k \in Calls |-> <<>>]

NextSlots ==
    \/ \E k \in 1 .. MaxSlotCalls, r \in SlotRanges : GetSlotsStart(k, "u1", r[1], r[2])
    \/ \E k \in Calls : GetSlotsListRules(k)
    \/ \E k \in Calls : GetSlotsListBookings(k)

SpecSlots == InitSlots /\ [][NextSlots]_vars

----------------------------------------------------------------------------
(* The reading handlers next to the writing ones: getFreeSlots and         *)
(* listBookings requests among createBooking and cancelBooking requests of *)
(* one subject, the rule table staying as it is                            *)
ReadRanges == {RangeMonday, RangeEmpty}
ReadWindows == {WinA, WinBad}

(* <<from, to, filtered>> of a listBookings request; from and to are the   *)
(* zero time when the query has no range                                   *)
ListQueries == {<<r[1], r[2], TRUE>> : r \in ReadRanges} \cup {<<0, 0, FALSE>>}

RuleEmptyOff == Payload(Monday, TOD(10, 0, 0), TOD(10, 0, 0), 30, FALSE)
RuleTueBackwards == Payload(Tuesday, TOD(10, 0, 0), TOD(9, 0, 0), 30, TRUE)

ReadTables ==
    {TableOf(<<Rule30>>, <<>>), TableOf(<<Rule30, RuleBackwards>>, <<>>),
     TableOf(<<RuleEmptyOff, Rule30>>, <<>>), TableOf(<<Rule30, RuleTueBackwards>>, <<>>)}

InitRead ==
    /\ rules \in ReadTables
    /\ ruleWrites = Len(rules)
    /\ setCall = NoCall
    /\ bookings \in {{}, {Booking(1, "u1", WinB[1], WinB[2])}}
    /\ nextID = Cardinality(bookings) + 1
    /\ pending = [k \in Calls |-> {}]
    /\ pc = [k \in Calls |-> "idle"]
    /\ req = [k \in Calls |-> NoReq]
    /\ cand = [k \in Calls |-> <<>>]
    /\ result = [k \in Calls |-> "none"]
    /\ cancelWrites = [id \in BookingIDs |-> 0]
    /\ slotsOut = [k \in Calls |-> <<>>]
    /\ listOut = [k \in Calls |-> <<>>]

NextRead ==
    \/ \E k \in Calls, r \in ReadRanges : GetSlotsStart(k, "u1", r[1], r[2])
    \/ \E k \in Calls : GetSlotsListRules(k)
    \/ \E k \in Calls : GetSlotsListBookings(k)
    \/ \E k \in Calls, q \in ListQueries : ListBookingsHandler(k, "u1", q[1], q[2], q[3])
    \/ \E k \in Calls, w \in ReadWindows : CreateBookingStart(k, "u1", w[1], w[2])
    \/ \E k \in Calls : CreateBookingCheck(k)
    \/ \E k \in Calls : CreateBookingListRules(k)
    \/ \E k \in Calls : CreateBookingListBookings(k)
    \/ \E k \in Calls : CreateBookingInsert(k)
    \/ \E k \in Calls : CreateBookingCommit(k)
    \/ \E k \in Calls, id \in 1 .. nextID : CancelBookingCheck(k, id)
    \/ \E k \in Calls : CancelBookingUpdate(k)

SpecRead == InitRead /\ [][NextRead]_vars

----------------------------------------------------------------------------
(* Properties of getFreeSlots, under SpecSlots *)

SlotsAnswered(k) == pc[k] = "done" /\ req[k].op = "slots" /\ result[k] = "OK"

(* The row of availability_rules a slot was expanded from *)
RuleOf(s) == CHOOSE r \in {rules[i] : i \in 1 .. Len(rules)} : r.ID = s.rule

ConfirmedStarts(userID) ==
    {b.StartAtUTC : b \in {x \in bookings : x.UserID = userID /\ x.Status = "confirmed"}}

(* C4: no slot returned by getFreeSlots starts at the startAt of a         *)
(* confirmed booking of the subject, for every rule set, slot length,      *)
(* booking set and range from < to.                                        *)
C4_NoReturnedSlotIsBooked ==
    \A k \in Calls : SlotsAnswered(k) =>
        \A i \in 1 .. Len(slotsOut[k]) :
            slotsOut[k][i].StartUTC \notin ConfirmedStarts(req[k].UserID)

(* C8: the slots getFreeSlots returns, and the candidates it expanded,     *)
(* are in ascending order of startAt, for every rule set in any id order.  *)
C8_SortedByStart ==
    \A k \in Calls : SlotsAnswered(k) =>
        /\ \A i, j \in 1 .. Len(slotsOut[k]) :
              i < j => slotsOut[k][i].StartUTC <= slotsOut[k][j].StartUTC
        /\ \A i, j \in 1 .. Len(cand[k]) :
              i < j => cand[k][i].StartUTC <= cand[k][j].StartUTC

DaysOf(from, to) ==
    {Truncate24h(from) + n * Day :
        n \in 0 .. ((Truncate24h(to) - Truncate24h(from)) \div Day)}

(* The chunks C10 states for rule r on day d, among those meeting [from, to): *)
(* [windowStart + n*L, windowStart + (n+1)*L) with the end <= windowEnd       *)
StatedChunks(r, d, from, to) ==
    LET windowStart == d + r.StartTime
        windowEnd == d + r.EndTime
        L == r.SlotLengthMins * 60
    IN  {c \in {<<windowStart + n * L, windowStart + (n + 1) * L>> :
                    n \in 0 .. ((r.EndTime - r.StartTime) \div L)} :
            c[2] <= windowEnd /\ c[2] > from /\ c[1] < to}

EmittedAt(k, r, d) ==
    {i \in 1 .. Len(cand[k]) : cand[k][i].rule = r.ID /\ cand[k][i].day = d}

(* C10: for an available rule on a matching day the emitted chunks are     *)
(* exactly [windowStart + n*L, windowStart + (n+1)*L) for every n >= 0     *)
(* with windowStart + (n+1)*L <= windowEnd, each once, none ending after   *)
(* windowEnd; a rule 09:00-09:50 of slot length 30 yields 09:00-09:30 only. *)
C10_ChunksOfTheDeclaredWindow ==
    \A k \in Calls : SlotsAnswered(k) =>
        \A n \in 1 .. Len(rules) : \A d \in DaysOf(req[k].start, req[k].end) :
            LET r == rules[n]
            IN  (r.Available /\ r.UserID = req[k].UserID /\ Weekday(d) = r.DayOfWeek) =>
                    /\ {Bare(cand[k][i]) : i \in EmittedAt(k, r, d)}
                          = StatedChunks(r, d, req[k].start, req[k].end)
                    /\ Cardinality(EmittedAt(k, r, d))
                          = Cardinality(StatedChunks(r, d, req[k].start, req[k].end))
                    /\ \A i \in EmittedAt(k, r, d) : cand[k][i].EndUTC <= d + r.EndTime

----------------------------------------------------------------------------
(* Properties of createBooking and cancelBooking *)

Creates == {k \in Calls : req[k].op = "create"}

(* Some slot of the sequence is exactly the window the request asks for *)
HasWindow(slots, r) ==
    \E i \in 1 .. Len(slots) : slots[i].StartUTC = r.start /\ slots[i].EndUTC = r.end

(* The candidates the subject's rules expand to, now, over the range       *)
(* createBooking checks for the request                                    *)
CandidatesNow(r) ==
    candidateSlots(ListAvailabilityRules(rules, r.UserID),
                   r.start - 1 * Second, r.end + 1 * Second)

(* C1: in every reachable state, whatever createBooking and cancelBooking  *)
(* requests have interleaved, no subject has two confirmed bookings with   *)
(* the same startAt.                                                       *)
C1_NoTwoConfirmedAtOneStart ==
    \A b1, b2 \in bookings :
        (/\ b1.Status = "confirmed" /\ b2.Status = "confirmed"
         /\ b1.UserID = b2.UserID /\ b1.StartAtUTC = b2.StartAtUTC) => b1 = b2

(* C1 witness: two createBooking requests of one subject for one startAt   *)
(* passed the check together, one is Confirmed and the unique index has    *)
(* stopped the other at its INSERT.                                        *)
C1_Witness ==
    \E k1, k2 \in Creates :
        /\ k1 # k2
        /\ req[k1].UserID = req[k2].UserID /\ req[k1].start = req[k2].start
        /\ result[k1] = "Confirmed" /\ result[k2] = "InternalError"

(* C2: when every request of the behaviour is a createBooking for the same *)
(* (subjectId, start, end), the window being a candidate slot and no       *)
(* booking existing beforehand, exactly one ends Confirmed and each other  *)
(* ends SlotTaken, never SlotNotAvailable and never an internal error.     *)
C2_OneConfirmedOthersSlotTaken ==
    (/\ \A k \in Calls : /\ pc[k] = "done"
                         /\ req[k].op = "create"
                         /\ req[k].UserID = req[1].UserID
                         /\ req[k].start = req[1].start
                         /\ req[k].end = req[1].end
     /\ HasWindow(CandidatesNow(req[1]).slots, req[1]))
    => /\ Cardinality({k \in Calls : result[k] = "Confirmed"}) = 1
       /\ \A k \in Calls : result[k] \in {"Confirmed", "SlotTaken"}

(* C3: a createBooking request goes on to reserve, and ends Confirmed,     *)
(* only if a candidate expanded when its check ran was exactly its         *)
(* (startAt, endAt); a check that finds no such candidate ends             *)
(* SlotNotAvailable; hence, while the rules expand as they did at the      *)
(* check, a Confirmed booking is a candidate slot of the rules.            *)
C3_ConfirmedOnlyIfCandidate ==
    /\ [](\A k \in Creates :
            (pc[k] \in {"insertQ", "commit"} \/ result[k] = "Confirmed")
                => HasWindow(cand[k], req[k]))
    /\ [][\A k \in Creates :
            (pc[k] = "listBookings" /\ pc'[k] # "listBookings"
                /\ ~HasWindow(cand[k], req[k]))
                => result'[k] = "SlotNotAvailable"]_vars
    /\ [](\A k \in Creates :
            (result[k] = "Confirmed" /\ CandidatesNow(req[k]) = [err |-> FALSE, slots |-> cand[k]])
                => HasWindow(CandidatesNow(req[k]).slots, req[k]))

(* C3 witness: one request is Confirmed and another, whose start is a      *)
(* candidate's start but whose end is not its end, is SlotNotAvailable.    *)
C3_Witness ==
    \E k1, k2 \in Creates :
        /\ result[k1] = "Confirmed"
        /\ result[k2] = "SlotNotAvailable"
        /\ \E i \in 1 .. Len(cand[k2]) : cand[k2][i].StartUTC = req[k2].start
        /\ ~HasWindow(cand[k2], req[k2])

FreeSlots(table, rows, userID, range) ==
    GenerateAvailableSlots(table, rows, userID, range[1], range[2]).slots

BareSeq(slots) == [i \in 1 .. Len(slots) |-> Bare(slots[i])]

OnlyRule30(userID) ==
    LET rs == ListAvailabilityRules(rules, userID)
    IN  /\ Len(rs) = 1
        /\ rs[1].DayOfWeek = Monday /\ rs[1].Available
        /\ rs[1].StartTime = TOD(9, 0, 0) /\ rs[1].EndTime = TOD(10, 0, 0)
        /\ rs[1].SlotLengthMins = 30

(* C5, the scenario: with the single rule {Monday, 09:00-10:00, 30} and no *)
(* confirmed booking, getFreeSlots over the Monday returns 09:00-09:30 and *)
(* 09:30-10:00; with 09:00-09:30 the one confirmed booking, it returns     *)
(* 09:30-10:00 alone.                                                      *)
C5_Scenario ==
    \A u \in Users : OnlyRule30(u) =>
        LET confirmed == {b \in bookings : b.UserID = u /\ b.Status = "confirmed"}
            free == BareSeq(FreeSlots(rules, bookings, u, RangeMonday))
        IN  /\ confirmed = {} => free = <<WinA, WinB>>
            /\ {<<b.StartAtUTC, b.EndAtUTC>> : b \in confirmed} = {WinA}
                  => free = <<WinB>>

(* C5, in general: when a createBooking of a slot getFreeSlots returns     *)
(* over a range is Confirmed, getFreeSlots over that range returns what it *)
(* did without the slots of that startAt, and every other slot still.      *)
C5_General ==
    \A k \in Creates : (pc[k] = "commit" /\ pc'[k] = "done") =>
        \A range \in Ranges :
            LET before == FreeSlots(rules, bookings, req[k].UserID, range)
                after == FreeSlots(rules', bookings', req[k].UserID, range)
            IN  HasWindow(before, req[k]) =>
                    after = SelectSeq(before, LAMBDA s : s.StartUTC # req[k].start)

(* C5: the scenario and the general statement together. *)
C5_BookingRemovesItsSlotOnly == []C5_Scenario /\ [][C5_General]_vars

(* C6: of the cancelBooking requests on one booking that found it, exactly *)
(* one succeeds and every other is AlreadyCancelled, however they          *)
(* interleave, and the status is written to cancelled exactly once.        *)
C6_OneCancelSucceeds ==
    \A id \in BookingIDs :
        LET found == {k \in Calls : /\ pc[k] = "done" /\ req[k].op = "cancel"
                                    /\ req[k].id = id /\ result[k] # "NotFound"}
            ok == {k \in found : result[k] = "OK"}
            again == {k \in found : result[k] = "AlreadyCancelled"}
        IN  /\ found = ok \cup again
            /\ Cardinality(ok) <= 1
            /\ again # {} => Cardinality(ok) = 1
            /\ cancelWrites[id] = Cardinality(ok)

(* C6 witness: two cancelBooking requests on one booking are done, one OK  *)
(* and one AlreadyCancelled, and the booking is cancelled.                 *)
C6_Witness ==
    \E k1, k2 \in Calls :
        /\ req[k1].op = "cancel" /\ req[k2].op = "cancel" /\ req[k1].id = req[k2].id
        /\ result[k1] = "OK" /\ result[k2] = "AlreadyCancelled"
        /\ \E b \in bookings : b.ID = req[k1].id /\ b.Status = "cancelled"
        /\ cancelWrites[req[k1].id] = 1

(* C7: a booking's status only moves confirmed -> cancelled: whatever      *)
(* createBooking, cancelBooking or availability operation takes a step,    *)
(* every booking is still stored afterwards, unchanged but for its status, *)
(* and a cancelled one is still cancelled.                                 *)
C7_StatusOnlyMovesToCancelled ==
    [][\A b \in bookings :
          \E b2 \in bookings' :
              /\ b2.ID = b.ID /\ b2.UserID = b.UserID
              /\ b2.StartAtUTC = b.StartAtUTC /\ b2.EndAtUTC = b.EndAtUTC
              /\ b2.Status \in {"confirmed", "cancelled"}
              /\ b.Status = "cancelled" => b2.Status = "cancelled"]_vars

(* C7 witness: a booking is cancelled, a rule has been written, and a      *)
(* later createBooking of the same startAt is Confirmed under a new id.    *)
C7_Witness ==
    \E b1, b2 \in bookings :
        /\ b1.Status = "cancelled" /\ b2.Status = "confirmed"
        /\ b1.UserID = b2.UserID /\ b1.StartAtUTC = b2.StartAtUTC
        /\ b1.ID # b2.ID
        /\ ruleWrites > 1

----------------------------------------------------------------------------
(* Properties of the expander's range filter and of the available flag *)

(* The expansion of the subject's rules with no range in the way: the      *)
(* chunks of every day from the Saturday before to the Thursday after the  *)
(* ranges queried                                                          *)
AllChunks(table, userID) ==
    candidateSlots(ListAvailabilityRules(table, userID), Sun0 - Day, Tue0 + 2 * Day)

Meets(s, from, to) == s.EndUTC > from /\ s.StartUTC < to

SeqToSet(seq) == {seq[i] : i \in 1 .. Len(seq)}

ValidRule(r) == RuleRowOK(r) /\ r.EndTime > r.StartTime

OnlyAvailable(table) == SelectSeq(table, LAMBDA r : r.Available)

SlotsDone(k) == pc[k] = "done" /\ req[k].op = "slots" /\ result[k] # "BadRange"

(* C12: a rule with available = false contributes nothing: whenever every  *)
(* stored rule is valid, getFreeSlots answers what it would answer with    *)
(* the available rules alone in the table, in whatever id order the rules  *)
(* are stored.                                                             *)
C12_UnavailableRulesAddNothing ==
    \A k \in Calls :
        (SlotsDone(k) /\ \A i \in 1 .. Len(rules) : ValidRule(rules[i])) =>
            LET only == GenerateAvailableSlots(OnlyAvailable(rules), bookings,
                                               req[k].UserID, req[k].start, req[k].end)
            IN  /\ result[k] = IF only.err THEN "InternalError" ELSE "OK"
                /\ BareSeq(slotsOut[k]) = BareSeq(only.slots)

(* [start, end) lies inside the window of rule r on the day it starts on *)
InsideWindow(start, end, r) ==
    LET d == Truncate24h(start)
    IN  /\ Weekday(d) = r.DayOfWeek
        /\ start >= d + r.StartTime
        /\ end <= d + r.EndTime

UnavailableRules(userID) ==
    {r \in SeqToSet(ListAvailabilityRules(rules, userID)) : ~r.Available}

(* C13: an unavailable rule overrides the available rules of its day and   *)
(* time: while it is stored, getFreeSlots returns no slot inside its       *)
(* window and no createBooking of a slot inside its window, checked while  *)
(* it is stored, is Confirmed.                                             *)
C13_UnavailableOverrides ==
    \A k \in Calls : \A r \in UnavailableRules(req[k].UserID) :
        /\ SlotsAnswered(k) =>
              \A s \in SeqToSet(slotsOut[k]) : ~InsideWindow(s.StartUTC, s.EndUTC, r)
        /\ (req[k].op = "create" /\ pc[k] \in {"insertQ", "commit"}) =>
              ~InsideWindow(req[k].start, req[k].end, r)

----------------------------------------------------------------------------
(* Properties of the reading handlers, under SpecRead *)

(* No createBooking has committed and no cancelBooking has updated a row   *)
NoWriteYet ==
    \A k \in Calls : /\ result[k] # "Confirmed"
                      /\ ~(req[k].op = "cancel" /\ result[k] = "OK")

C14_Frame ==
    \A k \in Calls : (req'[k].op = "slots" /\ pc'[k] # pc[k]) =>
        UNCHANGED <<rules, bookings, pending, nextID, cancelWrites>>

C14_Recomputed ==
    \A k \in Calls : (pc[k] = "slotsBookings" /\ pc'[k] = "done") =>
        slotsOut'[k] = GenerateAvailableSlots(rules, bookings, req[k].UserID,
                                              req[k].start, req[k].end).slots

C14_SameAnswer ==
    \A k1, k2 \in Calls :
        (/\ SlotsAnswered(k1) /\ SlotsAnswered(k2)
         /\ req[k1] = req[k2]
         /\ NoWriteYet) => slotsOut[k1] = slotsOut[k2]

(* C14: getFreeSlots is a pure read: no step of it changes the rules or    *)
(* the bookings, its answer is computed from the rules and the bookings    *)
(* stored when it answers, and two requests with the same (subjectId,      *)
(* from, to) with no write between them get the same slots.                *)
C14_PureRead == []C14_SameAnswer /\ [][C14_Frame /\ C14_Recomputed]_vars

(* C14 witness: two getFreeSlots requests with the same parameters have    *)
(* been answered with no write so far, each with the slots left by a       *)
(* confirmed booking.                                                      *)
C14_Witness ==
    \E k1, k2 \in Calls :
        /\ k1 # k2
        /\ SlotsAnswered(k1) /\ SlotsAnswered(k2)
        /\ req[k1] = req[k2]
        /\ NoWriteYet
        /\ slotsOut[k1] # <<>>
        /\ Len(slotsOut[k1]) < Len(cand[k1])

Ranged(r) == r.op \in {"create", "slots", "listRange"}

(* The arrival of request k: its handler binds and validates it *)
Arrives(k) == pc[k] = "idle" /\ pc'[k] # "idle"

C15_Rejected ==
    \A k \in Calls : (Arrives(k) /\ Ranged(req'[k]) /\ ~(req'[k].start < req'[k].end)) =>
        /\ pc'[k] = "done" /\ result'[k] = "BadRange"
        /\ UNCHANGED <<rules, bookings, pending, nextID, cancelWrites>>
        /\ cand'[k] = <<>> /\ slotsOut'[k] = <<>> /\ listOut'[k] = <<>>

C15_OnlyThose ==
    \A k \in Calls : result[k] = "BadRange" =>
        (Ranged(req[k]) /\ ~(req[k].start < req[k].end))

(* C15: a createBooking whose startAt is not strictly before its endAt,    *)
(* and a getFreeSlots or ranged listBookings whose from is not strictly    *)
(* before its to, ends BadRange in the step it arrives in, before any      *)
(* statement is sent to the store; rules and bookings stay as they are.    *)
C15_BadRangeBeforeTheStore == []C15_OnlyThose /\ [][C15_Rejected]_vars

(* C15 witness: a createBooking, a getFreeSlots and a ranged listBookings  *)
(* have each ended BadRange, the first with end before start, the others   *)
(* with from = to.                                                         *)
C15_Witness ==
    \E k1, k2, k3 \in Calls :
        /\ req[k1].op = "create" /\ result[k1] = "BadRange" /\ req[k1].end < req[k1].start
        /\ req[k2].op = "slots" /\ result[k2] = "BadRange" /\ req[k2].end = req[k2].start
        /\ req[k3].op = "listRange" /\ result[k3] = "BadRange" /\ req[k3].end = req[k3].start

----------------------------------------------------------------------------
(* Properties of cancelBooking's refusals and of createBooking's frame *)

Cancels == {k \in Calls : req[k].op = "cancel"}

StoredIDs == {b.ID : b \in bookings}
CancelledIDs == {b.ID : b \in {x \in bookings : x.Status = "cancelled"}}

(* The step in which request k answers *)
Answers(k) == pc[k] # "done" /\ pc'[k] = "done"

C16_Refusals ==
    \A k \in Calls : (req'[k].op = "cancel" /\ Answers(k)) =>
        /\ req'[k].id \notin StoredIDs <=> result'[k] = "NotFound"
        /\ req'[k].id \in CancelledIDs => result'[k] = "AlreadyCancelled"
        /\ result'[k] \in {"NotFound", "AlreadyCancelled"} => bookings' = bookings

C16_Distinct ==
    \A k \in Cancels : result[k] = "AlreadyCancelled" => req[k].id \in CancelledIDs

(* C16: cancelBooking of an id no booking is stored under answers          *)
(* NotFound; cancelBooking of a booking that is cancelled answers          *)
(* AlreadyCancelled, never NotFound; both leave the bookings as they are.  *)
C16_NotFoundOrAlreadyCancelled == []C16_Distinct /\ [][C16_Refusals]_vars

(* C16 witness: one cancelBooking has answered NotFound for an id never    *)
(* stored and another AlreadyCancelled for a booking cancelled before.     *)
C16_Witness ==
    \E k1, k2 \in Cancels :
        /\ result[k1] = "NotFound" /\ req[k1].id \notin StoredIDs
        /\ result[k2] = "AlreadyCancelled" /\ req[k2].id \in CancelledIDs

C17_NoRowFromAFailedAttempt ==
    \A k \in Calls : (req'[k].op = "create" /\ pc'[k] # pc[k]
                          /\ result'[k] # "Confirmed") =>
        /\ bookings' = bookings
        /\ Answers(k) => pending'[k] = {}

C17_RowsComeFromConfirmed ==
    bookings' # bookings =>
        \/ StoredIDs' = StoredIDs
        \/ \E k \in Calls : /\ Answers(k) /\ result'[k] = "Confirmed"
                              /\ pending[k] # {}
                              /\ bookings' = bookings \cup pending[k]

C17_NothingHalfCreated ==
    \A k \in Calls :
        /\ pending[k] # {} => (pc[k] = "commit" /\ req[k].op = "create")
        /\ \A b \in pending[k] : b.ID \notin StoredIDs

(* C17: a createBooking that does not end Confirmed (BadRange,             *)
(* SlotNotAvailable, SlotTaken, or a store failure at any statement, the   *)
(* commit included) changes the bookings in none of its steps and leaves   *)
(* no row behind: a row becomes visible only in the step that answers      *)
(* Confirmed.                                                              *)
C17_FailedCreateLeavesNothing ==
    /\ []C17_NothingHalfCreated
    /\ [][C17_NoRowFromAFailedAttempt /\ C17_RowsComeFromConfirmed]_vars

(* C17 witness: a createBooking failed at its commit, after its INSERT,    *)
(* beside one that was Confirmed, one rejected SlotTaken or                *)
(* SlotNotAvailable, and the only row stored is the Confirmed one.         *)
C17_Witness ==
    \E k1, k2, k3 \in Creates :
        /\ result[k1] = "InternalError" /\ nextID = 3
        /\ result[k2] = "Confirmed"
        /\ result[k3] \in {"SlotTaken", "SlotNotAvailable"}
        /\ Cardinality(bookings) = 1

----------------------------------------------------------------------------
(* Properties of the availability handlers and of invalid rules *)

(* C18: in every reachable state every stored rule has its end_time        *)
(* strictly after its start_time: setAvailability and updateAvailability   *)
(* never persist a rule with end_time <= start_time.                       *)
C18_StoredRulesEndAfterStart ==
    \A i \in 1 .. Len(rules) : rules[i].EndTime > rules[i].StartTime

(* The days [from, to) reaches into *)
DaysInRange(from, to) == {d \in DaysOf(from, to) : d < to /\ d + Day > from}

(* A rule of the subject with end_time not strictly after start_time       *)
(* matches the weekday of a day in the range                               *)
InvalidRuleInRange(userID, from, to) ==
    \E r \in SeqToSet(ListAvailabilityRules(rules, userID)) :
        /\ ~(r.EndTime > r.StartTime)
        /\ \E d \in DaysInRange(from, to) : Weekday(d) = r.DayOfWeek

(* C19: when a rule of the subject, available or not, with end_time not    *)
(* strictly after start_time matches a day of the range, the expansion     *)
(* fails: getFreeSlots answers the error and no slot at all, the other     *)
(* rules' slots included, and a createBooking over such a day never gets   *)
(* past its check, so it is not Confirmed.                                 *)
C19_InvalidRuleFailsTheExpansion ==
    \A k \in Calls :
        (~badRange(req[k].start, req[k].end)
            /\ InvalidRuleInRange(req[k].UserID, req[k].start, req[k].end)) =>
            /\ (req[k].op = "slots" /\ pc[k] = "done") =>
                  (result[k] = "InternalError" /\ slotsOut[k] = <<>> /\ cand[k] = <<>>)
            /\ req[k].op = "slots" => pc[k] # "slotsBookings"
            /\ req[k].op = "create" =>
                  (/\ result[k] \notin {"Confirmed", "SlotNotAvailable"}
                   /\ pc[k] \notin {"listBookings", "insertQ", "commit"}
                   /\ cand[k] = <<>>)

(* C19 witness: with an unavailable rule 10:00-10:00 stored before an      *)
(* available one of the same weekday, a getFreeSlots over that day and a   *)
(* createBooking of the available rule's slot have both ended in the       *)
(* error.                                                                  *)
C19_Witness ==
    \E k1, k2 \in Calls :
        /\ req[k1].op = "slots" /\ result[k1] = "InternalError"
        /\ req[k2].op = "create" /\ result[k2] = "InternalError"
        /\ Len(rules) = 2 /\ ~rules[1].Available /\ rules[2].Available
        /\ rules[1].EndTime = rules[1].StartTime
        /\ bookings = {}

(* How often the window <<start, end>> occurs in a sequence of slots *)
Times(slots, w) == Cardinality({i \in 1 .. Len(slots) : Bare(slots[i]) = w})

RECURSIVE SumOver(_, _, _)
SumOver(rs, i, w) ==
    IF i > Len(rs) THEN 0
    ELSE Times(candidateSlots(<<rs[i]>>, w[3], w[4]).slots, <<w[1], w[2]>>)
            + SumOver(rs, i + 1, w)

C20_SecondRuleAccepted ==
    (setCall # NoCall /\ setCall' # setCall
        /\ RuleRowOK(setCall.payload[setCall.i])) =>
        /\ Len(rules') = Len(rules) + 1
        /\ \E i \in 1 .. Len(rules') :
              /\ rules'[i].ID \notin RuleIDs
              /\ rules'[i].UserID = setCall.UserID
              /\ rules'[i].DayOfWeek = setCall.payload[setCall.i].DayOfWeek
              /\ rules'[i].StartTime = setCall.payload[setCall.i].StartTime
              /\ rules'[i].EndTime = setCall.payload[setCall.i].EndTime

C20_NoMerge ==
    \A k \in Creates : (pc[k] = "listRules" /\ pc'[k] = "listBookings") =>
        \A w \in Windows :
            Times(cand'[k], w)
                = SumOver(ListAvailabilityRules(rules, req[k].UserID), 1,
                          <<w[1], w[2], req[k].start - 1 * Second, req[k].end + 1 * Second>>)

----------------------------------------------------------------------------
(* getFreeSlots next to createBooking and cancelBooking of one subject     *)
(* whose rules emit candidates that share a start or overlap: the half     *)
(* hours of Rule30 inside the two hours of Rule120, or Rule30 stored twice. *)
(* The store holds no booking, a confirmed one at 09:00, or a cancelled    *)
(* and a confirmed one at 09:00                                            *)
FreeTables ==
    {TableOf(<<Rule30, Rule120>>, <<>>), TableOf(<<Rule30, Rule30>>, <<>>)}

FreeBookings ==
    {{},
     {Booking(1, "u1", WinA[1], WinA[2])},
     {Cancelled(Booking(1, "u1", WinA[1], WinA[2])), Booking(2, "u1", WinA[1], WinA[2])}}

FreeWindows == {WinA, WinB, WinL}

InitFree ==
    /\ rules \in FreeTables
    /\ ruleWrites = Len(rules)
    /\ setCall = NoCall
    /\ bookings \in FreeBookings
    /\ nextID = Cardinality(bookings) + 1
    /\ pending = [k \in Calls |-> {}]
    /\ pc = [k \in Calls |-> "idle"]
    /\ req = [k \in Calls |-> NoReq]
    /\ cand = [k \in Calls |-> <<>>]
    /\ result = [k \in Calls |-> "none"]
    /\ cancelWrites = [id \in BookingIDs |->
                          Cardinality({b \in bookings : b.ID = id /\ b.Status = "cancelled"})]
    /\ slotsOut = [k \in Calls |-> <<>>]
    /\ listOut = [k \in Calls |-> <<>>]

NextFree ==
    \/ \E k \in Calls, r \in Ranges : GetSlotsStart(k, "u1", r[1], r[2])
    \/ \E k \in Calls : GetSlotsListRules(k)
    \/ \E k \in Calls : GetSlotsListBookings(k)
    \/ \E k \in Calls, w \in FreeWindows : CreateBookingStart(k, "u1", w[1], w[2])
    \/ \E k \in Calls : CreateBookingCheck(k)
    \/ \E k \in Calls : CreateBookingListRules(k)
    \/ \E k \in Calls : CreateBookingListBookings(k)
    \/ \E k \in Calls : CreateBookingInsert(k)
    \/ \E k \in Calls : CreateBookingCommit(k)
    \/ \E k \in Calls, id \in 1 .. nextID : CancelBookingCheck(k, id)
    \/ \E k \in Calls : CancelBookingUpdate(k)

SpecFree == InitFree /\ [][NextFree]_vars

----------------------------------------------------------------------------
(* Same start, under SpecFree *)

(* Request k takes the step that answers it *)
AnswersNow(k) == pc[k] # "done" /\ pc'[k] = "done"

(* Request k runs the check query of CreateBookingHandler *)
ChecksNow(k) == pc[k] = "checkQ" /\ pc'[k] # "checkQ"

(* A getFreeSlots answer holds no slot that starts where a booking of the  *)
(* subject is confirmed when the answer is made                            *)
C21_Gone ==
    \A k \in Calls :
        (AnswersNow(k) /\ req[k].op = "slots" /\ result'[k] = "OK") =>
            \A i \in 1 .. Len(slotsOut'[k]) :
                slotsOut'[k][i].StartUTC \notin ConfirmedStarts(req[k].UserID)

(* A createBooking whose check query runs while a booking of the subject   *)
(* is confirmed at its startAt ends SlotTaken                              *)
C21_Taken ==
    \A k \in Calls :
        (ChecksNow(k) /\ req[k].start \in ConfirmedStarts(req[k].UserID)) =>
            (pc'[k] = "done" /\ result'[k] = "SlotTaken")

(* C21: once a booking with startAt S is confirmed for a subject, every    *)
(* candidate with startAt S (a duplicate from another rule, or one with    *)
(* the same start and another end) is gone from getFreeSlots, and every    *)
(* later createBooking with startAt S is rejected with SlotTaken for as    *)
(* long as the booking stays confirmed                                     *)
C21_SameStartGoneAndTaken == [][C21_Gone /\ C21_Taken]_vars

----------------------------------------------------------------------------
(* Overlap without a shared start, under SpecFree *)

(* A getFreeSlots answer keeps every candidate whose start is not the      *)
(* start of a confirmed booking of the subject, whatever the bookings      *)
(* cover                                                                   *)
C22_Kept ==
    \A k \in Calls :
        (AnswersNow(k) /\ req[k].op = "slots" /\ result'[k] = "OK") =>
            \A i \in 1 .. Len(cand[k]) :
                cand[k][i].StartUTC \notin ConfirmedStarts(req[k].UserID) =>
                    \E j \in 1 .. Len(slotsOut'[k]) : slotsOut'[k][j] = cand[k][i]

(* A createBooking for a candidate is refused only when a booking of the   *)
(* subject is confirmed at its very startAt                                *)
C22_RefusedOnlyAtSameStart ==
    \A k \in Calls :
        (/\ AnswersNow(k)
         /\ req[k].op = "create"
         /\ pc[k] \in TxOpen
         /\ result'[k] # "Confirmed"
         /\ pc[k] # "listRules"
         /\ pc[k] = "listBookings" => SlotMatches(cand[k], req[k].start, req[k].end))
        => req[k].start \in ConfirmedStarts(req[k].UserID)

----------------------------------------------------------------------------
(* The order of the checks of one createBooking attempt, under SpecFree *)

(* The window of request k is a candidate slot of the subject's rules *)
Derivable(k) ==
    LET c == candidateSlots(ListAvailabilityRules(rules, req[k].UserID),
                            req[k].start - 1 * Second, req[k].end + 1 * Second)
    IN  ~c.err /\ SlotMatches(c.slots, req[k].start, req[k].end)

(* C23: within one createBooking attempt the candidate-slot check comes    *)
(* before the store is asked to reserve: a request whose (startAt, endAt)  *)
(* matches no candidate is rejected with SlotNotAvailable, also when a     *)
(* confirmed booking exists at that startAt, and SlotTaken is reported     *)
(* only for windows that passed the check                                  *)
C23_CheckBeforeReserve ==
    [][\A k \in Calls :
          (AnswersNow(k) /\ req[k].op = "create" /\ pc[k] \in TxOpen) =>
              /\ ~Derivable(k) => result'[k] = "SlotNotAvailable"
              /\ result'[k] = "SlotTaken" => Derivable(k)]_vars

----------------------------------------------------------------------------
(* A rule changed between booking attempts: one subject holding Rule30,    *)
(* updateAvailability requests that complete while no other request is     *)
(* being handled, and getFreeSlots, createBooking and cancelBooking        *)
(* requests before and after them                                          *)
StalePayloads == {RuleOff, Rule120, RuleBackwards}

StaleWindows == {WinA, WinB}

InitStale ==
    /\ rules = TableOf(<<Rule30>>, <<>>)
    /\ ruleWrites = Len(rules)
    /\ setCall = NoCall
    /\ bookings \in {{}, {Booking(1, "u1", WinA[1], WinA[2])}}
    /\ nextID = Cardinality(bookings) + 1
    /\ pending = [k \in Calls |-> {}]
    /\ pc = [k \in Calls |-> "idle"]
    /\ req = [k \in Calls |-> NoReq]
    /\ cand = [k \in Calls |-> <<>>]
    /\ result = [k \in Calls |-> "none"]
    /\ cancelWrites = [id \in BookingIDs |-> 0]
    /\ slotsOut = [k \in Calls |-> <<>>]
    /\ listOut = [k \in Calls |-> <<>>]

NextStale ==
    \/ /\ InFlight = {}
       /\ \E id \in RuleIDs, p \in StalePayloads : UpdateAvailability("u1", id, p)
    \/ \E k \in Calls : GetSlotsStart(k, "u1", RangeMonday[1], RangeMonday[2])
    \/ \E k \in Calls : GetSlotsListRules(k)
    \/ \E k \in Calls : GetSlotsListBookings(k)
    \/ \E k \in Calls, w \in StaleWindows : CreateBookingStart(k, "u1", w[1], w[2])
    \/ \E k \in Calls : CreateBookingCheck(k)
    \/ \E k \in Calls : CreateBookingListRules(k)
    \/ \E k \in Calls : CreateBookingListBookings(k)
    \/ \E k \in Calls : CreateBookingInsert(k)
    \/ \E k \in Calls : CreateBookingCommit(k)
    \/ \E k \in Calls, id \in 1 .. nextID : CancelBookingCheck(k, id)
    \/ \E k \in Calls : CancelBookingUpdate(k)

SpecStale == InitStale /\ [][NextStale]_vars

(* The rules are as they were when request k arrived (no rule changes      *)
(* while a request is handled), so a window that is not derivable now was  *)
(* not derivable when the attempt started                                  *)
C24_Rejected ==
    \A k \in Calls :
        (AnswersNow(k) /\ req[k].op = "create" /\ pc[k] \in TxOpen /\ ~Derivable(k))
            => result'[k] = "SlotNotAvailable"

(* A change of the rules leaves every booking as it is *)
C24_BookingsUntouched == (rules' # rules) => (bookings' = bookings /\ pending' = pending)

(* C24: candidate slots are derived anew from the current rules on every   *)
(* booking attempt: when an updateAvailability that makes a slot no longer *)
(* derivable (available false, or times / slot length changed) has         *)
(* completed before a createBooking for that slot starts, the attempt is   *)
(* rejected with SlotNotAvailable, also when an earlier getFreeSlots       *)
(* returned the slot; confirmed bookings are untouched by the rule change  *)
C24_RederivedOnEveryAttempt == [][C24_Rejected /\ C24_BookingsUntouched]_vars

----------------------------------------------------------------------------
(* updateAvailability requests of two subjects over a table that holds a   *)
(* rule of each, next to a booking of the first                            *)
UpdateTables ==
    {TableOf(<<Rule30>>, <<Rule120>>), TableOf(<<Rule30, Rule120>>, <<Rule30>>)}

InitUpdate ==
    /\ rules \in UpdateTables
    /\ ruleWrites = Len(rules)
    /\ setCall = NoCall
    /\ bookings \in {{}, {Booking(1, "u1", WinA[1], WinA[2])}}
    /\ nextID = Cardinality(bookings) + 1
    /\ pending = [k \in Calls |-> {}]
    /\ pc = [k \in Calls |-> "idle"]
    /\ req = [k \in Calls |-> NoReq]
    /\ cand = [k \in Calls |-> <<>>]
    /\ result = [k \in Calls |-> "none"]
    /\ cancelWrites = [id \in BookingIDs |-> 0]
    /\ slotsOut = [k \in Calls |-> <<>>]
    /\ listOut = [k \in Calls |-> <<>>]

(* The rule ids a client names: the stored ones and one that is not *)
NextUpdate ==
    \E k \in Calls, u \in Users, id \in 1 .. (Len(rules) + 1), p \in PostedRules :
        UpdateAvailabilityHandler(k, u, id, p)

SpecUpdate == InitUpdate /\ [][NextUpdate]_vars

(* Request k is an updateAvailability answered in this step *)
UpdatesNow(k) == AnswersNow(k) /\ req'[k].op = "update"

(* A rule with this id belongs to this subject *)
RuleOfSubject(userID, ruleID) ==
    \E i \in 1 .. Len(rules) : rules[i].ID = ruleID /\ rules[i].UserID = userID

(* No rule with that id belongs to that subject: NotFound, no rule changed *)
C25_NotFound ==
    \A k \in Calls :
        (UpdatesNow(k) /\ ~RuleOfSubject(req'[k].UserID, req'[k].id)) =>
            (result'[k] = "NotFound" /\ rules' = rules)

(* NotFound is answered to no request that names a rule of its subject *)
C25_OnlyThen ==
    \A k \in Calls :
        (UpdatesNow(k) /\ result'[k] = "NotFound") =>
            ~RuleOfSubject(req'[k].UserID, req'[k].id)

(* Whatever the answer: the rows stay in number and order, a row other    *)
(* than the one named stays as it is, the one named keeps its id, subject  *)
(* and day of week and changes only on success, bookings stay as they are  *)
C25_Frame ==
    \A k \in Calls :
        UpdatesNow(k) =>
            /\ bookings' = bookings
            /\ pending' = pending
            /\ Len(rules') = Len(rules)
            /\ \A i \in 1 .. Len(rules) :
                  /\ rules'[i].ID = rules[i].ID
                  /\ rules'[i].UserID = rules[i].UserID
                  /\ rules'[i].DayOfWeek = rules[i].DayOfWeek
                  /\ (rules[i].ID # req'[k].id \/ rules[i].UserID # req'[k].UserID)
                        => rules'[i] = rules[i]
                  /\ result'[k] # "OK" => rules'[i] = rules[i]

(* C25: updateAvailability(subjectId, ruleId, patch) returns NotFound and  *)
(* changes no rule when no rule with that id belongs to that subject; when *)
(* it succeeds it changes that one rule only, never its subjectId or       *)
(* dayOfWeek, and leaves every other rule and every booking unchanged      *)
C25_UpdateTouchesOneRule == [][C25_NotFound /\ C25_OnlyThen /\ C25_Frame]_vars

(* A subject named another subject's rule and got NotFound, and a subject  *)
(* changed its own rule, the other rules and the booking being there       *)
C25_Witness ==
    /\ Len(rules) >= 2
    /\ bookings # {}
    /\ \E k, j \in Calls :
          /\ pc[k] = "done" /\ req[k].op = "update" /\ result[k] = "NotFound"
          /\ \E i \in 1 .. Len(rules) :
                rules[i].ID = req[k].id /\ rules[i].UserID # req[k].UserID
          /\ pc[j] = "done" /\ req[j].op = "update" /\ result[j] = "OK"
          /\ \E i \in 1 .. Len(rules) :
                /\ rules[i].ID = req[j].id
                /\ rules[i].UserID = req[j].UserID
                /\ rules[i].SlotLengthMins = 120
                /\ rules[i].DayOfWeek = Monday

----------------------------------------------------------------------------
(* Days and weekdays of the expansion, under SpecSlots *)

(* The midnights from the day before the range to the day after it *)
DaysAround(from, to) ==
    {Truncate24h(from) + n * Day :
        n \in -1 .. (((Truncate24h(to) - Truncate24h(from)) \div Day) + 1)}

(* The chunks of rule r that meet [from, to), over every day of r's weekday *)
ChunksInRange(r, from, to) ==
    UNION {StatedChunks(r, d, from, to) :
              d \in {x \in DaysAround(from, to) : Weekday(x) = r.DayOfWeek}}

(* The candidates the expander emitted for rule r *)
EmittedFor(k, r) == {i \in 1 .. Len(cand[k]) : cand[k][i].rule = r.ID}

(* C26: for every range from < to (starting or ending mid-day, spanning    *)
(* several days) and every valid available rule, the expander emits each   *)
(* chunk of the rule on every day of the rule's dayOfWeek (Sunday = 0)     *)
(* that meets [from, to), exactly once per rule, and no slot on a day of   *)
(* another weekday or outside [day + startTime, day + endTime]             *)
C26_EveryMatchingDayOnce ==
    \A k \in Calls : SlotsAnswered(k) =>
        \A n \in 1 .. Len(rules) :
            LET r == rules[n]
            IN  (r.Available /\ r.UserID = req[k].UserID /\ r.EndTime > r.StartTime) =>
                    /\ {Bare(cand[k][i]) : i \in EmittedFor(k, r)}
                          = ChunksInRange(r, req[k].start, req[k].end)
                    /\ Cardinality(EmittedFor(k, r))
                          = Cardinality(ChunksInRange(r, req[k].start, req[k].end))
                    /\ \A i \in EmittedFor(k, r) :
                          LET day == Truncate24h(cand[k][i].StartUTC)
                          IN  /\ Weekday(day) = r.DayOfWeek
                              /\ cand[k][i].StartUTC >= day + r.StartTime
                              /\ cand[k][i].EndUTC <= day + r.EndTime

----------------------------------------------------------------------------
(* createBooking attempts of one subject over the store's connection pool. *)
(* a.DB is one pgxpool.Pool: tx, from a.DB.Begin, keeps a connection until *)
(* Commit or the deferred Rollback, and the two reads of                   *)
(* GenerateAvailableSlots go to a.DB, each taking a further connection for *)
(* the time of its query.  ctx is context.Background(): an acquire waits   *)
(* without a deadline until a connection is free                           *)
MaxConns == 2        \* connections of the pool

(* The connections held: one per open transaction *)
ConnsInUse == Cardinality({k \in Calls : pc[k] \in TxOpen})

ConnFree == ConnsInUse < MaxConns

(* CreateBookingHandler up to a.DB.Begin, which acquires the connection of *)
(* the transaction; a request that fails validation never asks for one     *)
PoolBegin(k, userID, start, end) ==
    /\ badRange(start, end) \/ ConnFree
    /\ CreateBookingStart(k, userID, start, end)

(* a.ListAvailabilityRules inside GenerateAvailableSlots: a.DB.Query *)
PoolListRules(k) ==
    /\ ConnFree
    /\ CreateBookingListRules(k)

(* a.ListBookingsInRange inside GenerateAvailableSlots: a.DB.Query *)
PoolListBookings(k) ==
    /\ ConnFree
    /\ CreateBookingListBookings(k)

(* The steps request k takes once it has arrived *)
PoolStep(k) ==
    \/ CreateBookingCheck(k)
    \/ PoolListRules(k)
    \/ PoolListBookings(k)
    \/ CreateBookingInsert(k)
    \/ CreateBookingCommit(k)

NextPool ==
    \/ \E k \in Calls, w \in Windows : PoolBegin(k, "u1", w[1], w[2])
    \/ \E k \in Calls : CreateBookingCheck(k)
    \/ \E k \in Calls : PoolListRules(k)
    \/ \E k \in Calls : PoolListBookings(k)
    \/ \E k \in Calls : CreateBookingInsert(k)
    \/ \E k \in Calls : CreateBookingCommit(k)

(* Every request that can take a step again and again takes one: the Go    *)
(* scheduler runs every goroutine, the store answers every statement, and  *)
(* the pool and the row locks serve their waiters in turn                  *)
SpecPool ==
    /\ InitBooking
    /\ [][NextPool]_vars
    /\ \A k \in Calls : SF_vars(PoolStep(k))

(* C27: every createBooking attempt eventually reaches Confirmed or        *)
(* Rejected (or an internal error) and releases its transaction, for any   *)
(* number of concurrent attempts sharing the bounded connection pool, each *)
(* attempt holding its transaction's connection while the availability     *)
(* check acquires a further connection: no set of attempts blocks forever  *)
C27_EveryAttemptEnds ==
    \A k \in Calls : (pc[k] \in TxOpen) ~> (pc[k] = "done" /\ pending[k] = {})

----------------------------------------------------------------------------
(* A cancelled booking frees its start, under SpecFree *)

CancelledStarts(userID) ==
    {b.StartAtUTC : b \in {x \in bookings : x.UserID = userID /\ x.Status = "cancelled"}}

(* The starts that only cancelled bookings of the subject hold *)
FreedStarts(userID) == CancelledStarts(userID) \ ConfirmedStarts(userID)

(* getFreeSlots returns the candidates at a freed start *)
C28_Returned ==
    \A k \in Calls :
        (AnswersNow(k) /\ req[k].op = "slots" /\ result'[k] = "OK") =>
            \A i \in 1 .. Len(cand[k]) :
                cand[k][i].StartUTC \in FreedStarts(req[k].UserID) =>
                    \E j \in 1 .. Len(slotsOut'[k]) :
                        Bare(slotsOut'[k][j]) = Bare(cand[k][i])

(* A createBooking for a candidate at a freed start passes the check query *)
(* and the candidate check, and its INSERT is not refused                  *)
C28_NotRefused ==
    \A k \in Calls :
        (/\ req[k].op = "create"
         /\ pc[k] \in TxOpen
         /\ pc'[k] # pc[k]
         /\ req[k].start \in FreedStarts(req[k].UserID)
         /\ pc[k] = "listRules" => Derivable(k)
         /\ pc[k] = "listBookings" => SlotMatches(cand[k], req[k].start, req[k].end))
        => (pc'[k] # "done" \/ result'[k] = "Confirmed")

(* The row a Confirmed attempt adds is a new one: no stored booking has    *)
(* its id, and the stored rows stay                                        *)
C28_NewRow ==
    \A k \in Calls :
        (AnswersNow(k) /\ req[k].op = "create" /\ result'[k] = "Confirmed") =>
            /\ bookings \subseteq bookings'
            /\ \E b \in bookings' \ bookings :
                  /\ bookings' = bookings \cup {b}
                  /\ b.Status = "confirmed"
                  /\ b.StartAtUTC = req[k].start
                  /\ \A x \in bookings : x.ID # b.ID

(* A cancelled booking stays as it is *)
C28_StaysCancelled ==
    \A b \in bookings : b.Status = "cancelled" => b \in bookings'

(* At most one booking of a subject is confirmed at a start *)
C28_OneConfirmed ==
    \A b1, b2 \in bookings :
        (/\ b1.UserID = b2.UserID
         /\ b1.StartAtUTC = b2.StartAtUTC
         /\ b1.Status = "confirmed"
         /\ b2.Status = "confirmed") => b1 = b2

(* C28: after cancelBooking of a confirmed booking at startAt S succeeds   *)
(* the slot is free again: getFreeSlots returns the candidate at S and a   *)
(* later createBooking for it ends Confirmed with a new booking id, the    *)
(* cancelled booking stays cancelled, and any number of cancelled bookings *)
(* may share S while at most one is confirmed                              *)
C28_CancelFreesTheSlot ==
    /\ []C28_OneConfirmed
    /\ [][C28_Returned /\ C28_NotRefused /\ C28_NewRow /\ C28_StaysCancelled]_vars

(* Two cancelled bookings and a confirmed one share a start: the second    *)
(* was cancelled by a request of this behaviour, a getFreeSlots answered   *)
(* after it held the slot, and a createBooking after that was Confirmed    *)
C28_Witness ==
    \E b1, b2, b3 \in bookings :
        /\ b1.ID < b2.ID /\ b2.ID < b3.ID
        /\ b1.UserID = b3.UserID /\ b2.UserID = b3.UserID
        /\ b1.StartAtUTC = b3.StartAtUTC /\ b2.StartAtUTC = b3.StartAtUTC
        /\ b1.Status = "cancelled" /\ b2.Status = "cancelled"
        /\ b3.Status = "confirmed"
        /\ \E x, k, c \in Calls :
              /\ x < k /\ k < c
              /\ req[x].op = "cancel" /\ req[x].id = b2.ID /\ result[x] = "OK"
              /\ SlotsAnswered(k)
              /\ \E j \in 1 .. Len(slotsOut[k]) :
                    Bare(slotsOut[k][j]) = <<b3.StartAtUTC, b3.EndAtUTC>>
              /\ req[c].op = "create" /\ req[c].start = b3.StartAtUTC
              /\ result[c] = "Confirmed"

----------------------------------------------------------------------------
(* setAvailability requests with their responses, two subjects, from an    *)
(* empty store                                                             *)

(* A rule as the client posts it: the JSON may carry a user_id of its own *)
PostedBy(p, uid) ==
    [DayOfWeek |-> p.DayOfWeek, StartTime |-> p.StartTime, EndTime |-> p.EndTime,
     SlotLengthMins |-> p.SlotLengthMins, Available |-> p.Available,
     UserID |-> uid]

SetPosted ==
    {PostedBy(Rule30, "u2"), PostedBy(Rule120, "zz"), PostedBy(RuleZeroLength, "u2")}

SetLists == UNION {[1 .. n -> SetPosted] : n \in 1 .. (MaxRuleWrites + 1)}

(* A faulty variant of bindUserID, the posted user_id kept *)
bindUserIDFromPayload(p, userID) == p

(* payload[i].UserID = userID *)
bindUserID(p, userID) == [p EXCEPT !.UserID = userID]

(* SetAvailabilityHandler as request k: the payload is bound *)
SetAvailabilityRequest(k, userID, payload) ==
    /\ CanArrive(k)
    /\ setCall = NoCall
    /\ Len(rules) + Len(payload) <= MaxRuleWrites + 1
    /\ setCall' = [UserID |-> userID, payload |-> payload, i |-> 1]
    /\ req' = [req EXCEPT ![k] = [op |-> "set", UserID |-> userID,
                                  start |-> 0, end |-> 0, id |-> 0]]
    /\ pc' = [pc EXCEPT ![k] = "setLoop"]
    /\ UNCHANGED <<rules, ruleWrites, bookings, nextID, pending, cand, result,
                   cancelWrites, slotsOut, listOut>>

(* One turn of the loop of request k: payload[i].UserID = userID and       *)
(* InsertAvailabilityRule, a statement of its own on the pool; an error    *)
(* answers 500 and returns, the last turn answers 201                      *)
SetAvailabilityTurn(k) ==
    /\ pc[k] = "setLoop"
    /\ LET r == bindUserID(setCall.payload[setCall.i], setCall.UserID)
       IN  IF RuleRowOK(r)
           THEN /\ \E pos \in 1 .. (Len(rules) + 1) :
                      rules' = InsertAvailabilityRule(rules, ruleWrites + 1,
                                                      r.UserID, r, pos)
                /\ ruleWrites' = ruleWrites + 1
                /\ IF setCall.i = Len(setCall.payload)
                   THEN /\ setCall' = NoCall
                        /\ Finish(k, "Created")
                   ELSE /\ setCall' = [setCall EXCEPT !.i = @ + 1]
                        /\ UNCHANGED <<pc, result>>
           ELSE /\ setCall' = NoCall
                /\ Finish(k, "InternalError")
                /\ UNCHANGED <<rules, ruleWrites>>
    /\ UNCHANGED <<bookings, nextID, pending, req, cand, cancelWrites,
                   slotsOut, listOut>>

NextSet ==
    \/ \E k \in Calls, u \in Users, p \in SetLists : SetAvailabilityRequest(k, u, p)
    \/ \E k \in Calls : SetAvailabilityTurn(k)

SpecSet == Init /\ [][NextSet]_vars

(* Request k takes a turn of its loop *)
TurnsNow(k) == pc[k] = "setLoop" /\ setCall' # setCall

(* The values of a stored row that come from the payload *)
Posted(row) ==
    <<row.DayOfWeek, row.StartTime, row.EndTime, row.SlotLengthMins, row.Available>>

(* The row request k stored for the j-th rule of its payload, the call     *)
(* being at its i-th: rows get the ids ruleWrites + 1 in storing order     *)
StoredFor(k, j) ==
    {n \in 1 .. Len(rules) :
        /\ rules[n].ID = (ruleWrites - (setCall.i - 1)) + j
        /\ rules[n].UserID = req[k].UserID
        /\ Posted(rules[n]) = Posted(setCall.payload[j])}

(* A turn whose INSERT the store accepts adds one row, the i-th rule of    *)
(* the payload under the subject of the call, and moves to rule i + 1 or   *)
(* answers 201 after the last                                              *)
C29_Stores ==
    \A k \in Calls :
        (TurnsNow(k) /\ RuleRowOK(setCall.payload[setCall.i])) =>
            /\ Len(rules') = Len(rules) + 1
            /\ \E pos \in 1 .. Len(rules') :
                  /\ rules = [n \in 1 .. Len(rules) |->
                                 IF n < pos THEN rules'[n] ELSE rules'[n + 1]]
                  /\ rules'[pos].UserID = req[k].UserID
                  /\ Posted(rules'[pos]) = Posted(setCall.payload[setCall.i])
                  /\ \A n \in 1 .. Len(rules) : rules[n].ID # rules'[pos].ID
            /\ IF setCall.i < Len(setCall.payload)
               THEN /\ pc'[k] = "setLoop"
                    /\ setCall' = [setCall EXCEPT !.i = @ + 1]
               ELSE pc'[k] = "done" /\ result'[k] = "Created"

(* A turn whose INSERT fails ends the call with the error: nothing is      *)
(* stored by it, rules 1 .. i-1 of the payload are in the store, and the   *)
(* call, being over, stores none of rules i .. n                           *)
C29_FailStops ==
    \A k \in Calls :
        (TurnsNow(k) /\ ~RuleRowOK(setCall.payload[setCall.i])) =>
            /\ rules' = rules
            /\ pc'[k] = "done"
            /\ result'[k] = "InternalError"
            /\ setCall' = NoCall
            /\ \A j \in 1 .. (setCall.i - 1) : StoredFor(k, j) # {}

(* Only the turns of a call in progress add rows *)
C29_NoOtherWriter ==
    (rules' # rules) => \E k \in Calls : TurnsNow(k)

====
